---- MODULE Spec2Model ----
(***************************************************************************)
(* Model of the real-time voice streaming engine:                          *)
(*   - VoiceSocket (utils/voicesocket): socket lifecycle, outbound queue,  *)
(*     reconnect timers, playback scheduling;                              *)
(*   - AudioRecorder (components/AudioRecorder.tsx): connect/disconnect,   *)
(*     recording, transmission gating, chunk processing.                   *)
(*                                                                         *)
(* The JavaScript heap is held in the variables below.  Every method and   *)
(* handler of the source is an operator from a heap record w to the heap   *)
(* after the call, so that one event (a socket event calling the           *)
(* recorder's callback, which calls stopRecording, ...) is one action.     *)
(* Time is in milliseconds.                                                *)
(***************************************************************************)
EXTENDS Integers, Sequences, FiniteSets, TLC

\* ---------------------------------------------------------------- bounds
MaxSock == 7          \* WebSocket objects created in one behaviour (SpecSocket)
MaxQueueSock == 2     \* WebSocket objects created in one behaviour (SpecQueue)
MaxFrames == 3        \* frames the environment submits with send()
MaxInits == 2         \* init() calls on the VoiceSocket under test
MaxPlaySock == 2      \* WebSocket objects created in one behaviour (SpecPlayback)
MaxCtx == 2           \* playback AudioContext objects created in one behaviour
MaxAudio == 3         \* audio sources scheduled in one behaviour
MaxTime == 80         \* largest AudioContext.currentTime reached, in ms
TickMs == 40          \* step by which the output device's clock advances, in ms
MaxVS == 3            \* VoiceSocket instances the recorder constructs (SpecConnect)
MaxCapVS == 1         \* VoiceSocket instances the recorder constructs (SpecCapture)
MaxCapSock == 2       \* WebSocket objects created in one behaviour (SpecCapture)
MaxRecSock == 3       \* WebSocket objects created in one behaviour (SpecConnect)
MaxStreams == 2       \* getUserMedia streams acquired in one behaviour (SpecCapture)
MaxTxSock == 2        \* WebSocket objects created in one behaviour (SpecTransmit)
MaxChunks == 2        \* chunks the recorders deliver in one behaviour (SpecTransmit)
MaxPcmLen == 2        \* samples in the Int16Array handed to the codec (SpecCodec)
MaxFairSock == 6      \* WebSocket objects created in one behaviour (SpecSocketFair)
MaxRawLen == 2        \* samples in the decoded chunk (SpecConditioner)

\* ------------------------------------------------------ program constants
maxReconnectAttempts == 5
reconnectDelay == 1000
NormalClosure == 1000
AbnormalClosure == 1006
defaultSampleRate == 24000
UnderrunMarginMs == 50      \* now + 0.05
RescheduleLeadMs == 100     \* now + 0.1

SockIds == 1..(MaxSock + 1)
VSIds == 1..(MaxVS + 1)
StreamIds == 1..(MaxStreams + 1)
CtxIds == 1..(MaxCtx + 1)
CloseCodes == {NormalClosure, AbnormalClosure}
PcmSamples == {-32768, -257, -1, 0, 1, 255, 256, 32767}
\* raw samples in 1/200: -10, -1, -0.3, -0.015, -0.01, 0, 0.01, 0.015, 0.3, 1, 10
RawSamples == {-2000, -200, -60, -3, -2, 0, 2, 3, 60, 200, 2000}

VARIABLES
    vs,         \* VoiceSocket instances: the fields of class VoiceSocket, plus
                \* the instance's outstanding setTimeout callbacks (timers)
    ws,         \* browser WebSocket objects: readyState, owning VoiceSocket
    nextSock,   \* id of the next WebSocket object to be constructed
    wire,       \* frames handed to WebSocket.send, in order: <<sock, frame>>
    pctx,       \* playback AudioContext objects: state, currentTime
    nextCtx,    \* id of the next playback AudioContext to be constructed
    scheduled,  \* AudioBufferSourceNode.start calls, in order
    nextVS,     \* id of the next VoiceSocket instance to be constructed
    rec,        \* AudioRecorder: its refs, its React state, the state seen by
                \* the callbacks of the last render, mounted
    conn,       \* per connectSocket call (per VoiceSocket instance): the
                \* closure's `settled` flag and the promise's outcome
    streams,    \* MediaStream objects returned by getUserMedia
    recorders,  \* RecordRTC objects (recorder r records stream r)
    nextStream, \* id of the next MediaStream to be acquired
    acquiring,  \* startRecording calls suspended at `await getUserMedia`
    stopCallbacks, \* RecordRTC stopRecording callbacks not yet invoked
    decoding,   \* chunks of processAudioChunk calls suspended at their awaits
    nextChunk,  \* id of the next chunk a recorder delivers
    probe,      \* instrumentation read by the properties only
    log,        \* error lines logged by the handler that ran last
    dsp,        \* the sample buffers of the audio functions under study
    \* observers (history of the run, read by the properties only)
    nextFrame,  \* id of the next frame the environment submits
    inits,      \* init() calls made by the environment
    viaQueue,   \* frames that were appended to a messageQueue
    discarded,  \* frames dropped from a messageQueue by init() or close()
    closeRun,   \* consecutive non-1000 close events since init()/open, -1: n/a
    lastCloseCode, \* code of the most recent close event, 0: none yet
    attemptsRun,\* sockets opened by reconnect timers during closeRun
    closedByCaller \* close() was called and init() has not been called since

heapVars == <<vs, ws, nextSock, wire, pctx, nextCtx, scheduled, nextVS, rec, conn,
             streams, recorders, nextStream, acquiring, stopCallbacks, decoding,
             nextChunk, probe, log>>
obsVars == <<nextFrame, viaQueue, discarded, closeRun, lastCloseCode,
            attemptsRun, closedByCaller>>
vars == <<vs, ws, nextSock, wire, pctx, nextCtx, scheduled, nextVS, rec, conn,
          streams, recorders, nextStream, acquiring, stopCallbacks, decoding,
          nextChunk, probe, log, nextFrame, inits, viaQueue, discarded, closeRun,
          lastCloseCode, attemptsRun, closedByCaller, dsp>>

\* The heap as one record, and its commit as the next state.
Cur == [vs |-> vs, ws |-> ws, nextSock |-> nextSock, wire |-> wire,
        pctx |-> pctx, nextCtx |-> nextCtx, scheduled |-> scheduled,
        nextVS |-> nextVS, rec |-> rec, conn |-> conn, streams |-> streams,
        recorders |-> recorders, nextStream |-> nextStream,
        acquiring |-> acquiring, stopCallbacks |-> stopCallbacks,
        decoding |-> decoding, nextChunk |-> nextChunk, probe |-> probe,
        log |-> {}]

Set(w) ==
    /\ vs' = w.vs
    /\ ws' = w.ws
    /\ nextSock' = w.nextSock
    /\ wire' = w.wire
    /\ pctx' = w.pctx
    /\ nextCtx' = w.nextCtx
    /\ scheduled' = w.scheduled
    /\ nextVS' = w.nextVS
    /\ rec' = w.rec
    /\ conn' = w.conn
    /\ streams' = w.streams
    /\ recorders' = w.recorders
    /\ nextStream' = w.nextStream
    /\ acquiring' = w.acquiring
    /\ stopCallbacks' = w.stopCallbacks
    /\ decoding' = w.decoding
    /\ nextChunk' = w.nextChunk
    /\ probe' = w.probe
    /\ log' = w.log
    /\ dsp' = dsp

\* No sample buffer is under study.
NoSignal == [stage |-> "none"]

\* this.log(message, "error")
LogError(w, line) == [w EXCEPT !.log = @ \cup {line}]

\* ------------------------------------------------------------ WebSocket
NoSocket == [readyState |-> "NONE", owner |-> 0, opened |-> FALSE]

\* new WebSocket(url): a fresh object in readyState CONNECTING.
NewWebSocket(w, v) ==
    [w EXCEPT !.ws[w.nextSock] = [readyState |-> "CONNECTING", owner |-> v,
                                  opened |-> FALSE],
              !.nextSock = @ + 1]

\* WebSocket.close(code, reason): starts the closing handshake of a socket
\* that is CONNECTING or OPEN; no effect on one that is CLOSING or CLOSED.
WebSocketClose(w, s) ==
    IF w.ws[s].readyState \in {"CONNECTING", "OPEN"}
    THEN [w EXCEPT !.ws[s].readyState = "CLOSING"]
    ELSE w

\* WebSocket.send(data) on an OPEN socket: the frame goes out on the wire.
WebSocketSend(w, s, f) ==
    [w EXCEPT !.wire = Append(@, <<s, f>>)]

\* ------------------------------- AudioRecorder: helpers and callbacks
FreshRecorder ==
    [recorderRef |-> 0, streamRef |-> 0, socketRef |-> 0,
     isTransmittingRef |-> FALSE, audioContextRef |-> FALSE,
     connectInFlightRef |-> 0, connectedRef |-> FALSE,
     isConnected |-> FALSE, isRecording |-> FALSE, isTransmitting |-> FALSE,
     status |-> "Idle",
     rendered |-> [isConnected |-> FALSE, isRecording |-> FALSE,
                   isTransmitting |-> FALSE],
     mounted |-> TRUE]

NoConn == [settled |-> FALSE, outcome |-> "none"]
FreshProbe == [stopRecordingCalled |-> FALSE, failedChunks |-> {},
               stoppedWhileAcquiring |-> FALSE]

\* ensureAudioContext(): audioContextRef holds a context that is not closed
\* (TRUE) or nothing (FALSE); ok: the constructor exists and does not throw.
ensureAudioContext(w, ok) ==
    IF ~w.rec.audioContextRef /\ ok
    THEN [w EXCEPT !.rec.audioContextRef = TRUE]
    ELSE w

updateTransmittingState(w, value) ==
    [w EXCEPT !.rec.isTransmittingRef = value, !.rec.isTransmitting = value]

\* Mutant of stopTransmission: the stream is let go as well.
stopTransmissionDropsStream(w) ==
    [updateTransmittingState(w, FALSE) EXCEPT !.rec.streamRef = 0]

stopTransmission(w) == updateTransmittingState(w, FALSE)

\* stopRecording(): RecordRTC invokes the callback given to its
\* stopRecording later, once for the recorder (stopCallbacks: the recorders
\* whose callback is outstanding).
stopRecording(w) ==
    LET r == w.rec.recorderRef
        w1 == IF r # 0
              THEN [w EXCEPT !.recorders[r] = "stopped",
                             !.stopCallbacks = @ \cup {r}]
              ELSE w
        s == w1.rec.streamRef
        w2 == IF s # 0
              THEN [w1 EXCEPT !.streams[s] = "stopped", !.rec.streamRef = 0]
              ELSE w1
    IN [w2 EXCEPT !.rec.audioContextRef = FALSE,
                  !.rec.isRecording = FALSE,
                  !.probe.stopRecordingCalled = TRUE,
                  !.probe.stoppedWhileAcquiring = (w.acquiring > 0)]

\* Mutant of SettlePromise: a settled promise can be settled again.
SettlePromiseAgain(w, v, outcome) ==
    IF w.conn[v].outcome # "none"
    THEN [w EXCEPT !.conn[v].outcome = outcome, !.rec.connectInFlightRef = 0]
    ELSE w

\* resolve()/reject() of the promise of connectSocket call v, with the
\* .finally callback that follows in the same turn.
SettlePromise(w, v, outcome) ==
    IF w.conn[v].outcome = "pending"
    THEN [w EXCEPT !.conn[v].outcome = outcome, !.rec.connectInFlightRef = 0]
    ELSE w

\* socket.onOpen(() => ...) of connectSocket
RecOnOpen(w, v) ==
    LET w1 == [w EXCEPT !.conn[v].settled = TRUE,
                        !.rec.connectInFlightRef = 0,
                        !.rec.connectedRef = TRUE,
                        !.rec.isConnected = TRUE,
                        !.rec.status = "Connected"]
    IN SettlePromise(w1, v, "resolved")

\* socket.onClose((event) => ...) of connectSocket
RecOnClose(w, v) ==
    LET w1 == [w EXCEPT !.rec.connectInFlightRef = 0,
                        !.rec.connectedRef = FALSE,
                        !.rec.isConnected = FALSE,
                        !.rec.status = "Disconnected"]
        w2 == stopRecording(stopTransmission(w1))
    IN IF ~w2.conn[v].settled
       THEN SettlePromise([w2 EXCEPT !.conn[v].settled = TRUE], v, "rejected")
       ELSE w2

\* socket.onError((event) => ...) of connectSocket
RecOnError(w, v) ==
    LET w1 == [w EXCEPT !.rec.status = "Error"]
    IN IF ~w1.conn[v].settled
       THEN SettlePromise([w1 EXCEPT !.conn[v].settled = TRUE,
                                     !.rec.connectInFlightRef = 0], v, "rejected")
       ELSE w1

\* ---------------------------------------------------------- VoiceSocket
FreshVoiceSocket ==
    [socket |-> 0, reconnectAttempts |-> 0, messageQueue |-> <<>>,
     isClosing |-> FALSE, timers |-> <<>>,
     playbackContext |-> 0, playbackClock |-> 0, teardowns |-> {},
     callbacks |-> FALSE]

\* this.socket?.readyState === WebSocket.OPEN
SocketIsOpen(w, v) ==
    /\ w.vs[v].socket # 0
    /\ w.ws[w.vs[v].socket].readyState = "OPEN"

isConnected(w, v) == SocketIsOpen(w, v)

\* connect(): this.socket = new WebSocket(wsUrl), handlers bound to `this`.
connect(w, v) ==
    LET w1 == NewWebSocket(w, v)
    IN [w1 EXCEPT !.vs[v].socket = w.nextSock]

init(w, v) ==
    connect([w EXCEPT !.vs[v].isClosing = FALSE,
                      !.vs[v].reconnectAttempts = 0,
                      !.vs[v].messageQueue = <<>>], v)

send(w, v, f) ==
    IF SocketIsOpen(w, v)
    THEN WebSocketSend(w, w.vs[v].socket, f)
    ELSE [w EXCEPT !.vs[v].messageQueue = Append(@, f)]

\* Mutant of FlushLoop: pop() instead of shift().
RECURSIVE FlushLoopPop(_, _)
FlushLoopPop(w, v) ==
    IF Len(w.vs[v].messageQueue) > 0
    THEN LET q == w.vs[v].messageQueue
             payload == q[Len(q)]
             w1 == [w EXCEPT !.vs[v].messageQueue = SubSeq(q, 1, Len(q) - 1)]
         IN FlushLoopPop(WebSocketSend(w1, w.vs[v].socket, payload), v)
    ELSE w

\* The loop of flushMessageQueue: shift() the head and send it, until empty.
RECURSIVE FlushLoop(_, _)
FlushLoop(w, v) ==
    IF Len(w.vs[v].messageQueue) > 0
    THEN LET payload == Head(w.vs[v].messageQueue)
             w1 == [w EXCEPT !.vs[v].messageQueue = Tail(@)]
         IN FlushLoop(WebSocketSend(w1, w.vs[v].socket, payload), v)
    ELSE w

flushMessageQueue(w, v) ==
    IF ~SocketIsOpen(w, v) THEN w ELSE FlushLoop(w, v)

\* ------------------------------------------------- playback scheduler
\* An AudioContext is "running" from construction, "closing" from the call of
\* close() until its promise settles (the state attribute still reads
\* "running" then), and "closed" afterwards.
NoContext == [state |-> "none", currentTime |-> 0]

\* The finally block of teardownPlayback.
TeardownFinally(w, v) ==
    [w EXCEPT !.vs[v].playbackContext = 0, !.vs[v].playbackClock = 0]

\* teardownPlayback() up to its await.  close() of a running context returns
\* a pending promise: the rest of the function (vs[v].teardowns) runs when it
\* settles.  close() of a context that is already closing rejects at once,
\* and a closed context is not awaited: the finally block then runs before
\* any other event is handled.
teardownPlayback(w, v) ==
    LET c == w.vs[v].playbackContext
    IN IF c = 0 THEN w
       ELSE IF w.pctx[c].state = "running"
            THEN [w EXCEPT !.pctx[c].state = "closing",
                           !.vs[v].teardowns = @ \cup {c}]
            ELSE TeardownFinally(w, v)

\* ensurePlaybackContext(): the context to use, constructing one when there
\* is none or it reads "closed".  Returns the heap; the context is then
\* vs[v].playbackContext.
ensurePlaybackContext(w, v) ==
    LET c == w.vs[v].playbackContext
    IN IF c = 0 \/ w.pctx[c].state = "closed"
       THEN LET new == [state |-> "running", currentTime |-> 0]
            IN [w EXCEPT !.pctx[w.nextCtx] = new,
                         !.nextCtx = @ + 1,
                         !.vs[v].playbackContext = w.nextCtx,
                         !.vs[v].playbackClock = new.currentTime]
       ELSE w

\* An audio payload: the number of bytes its data decodes to, and its
\* sample_rate (0: absent).
SampleRateOf(payload) ==
    IF payload.sample_rate = 0 THEN defaultSampleRate ELSE payload.sample_rate

\* audioBuffer.duration in ms: sampleCount / sampleRate seconds.
DurationMs(payload) == ((payload.bytes \div 2) * 1000) \div SampleRateOf(payload)

\* Mutant of StartTime: every frame is rescheduled from now.
StartTimeAlwaysReset(clock, now) == now + RescheduleLeadMs

\* Mutant of StartTime: the clock is never pulled forward.
StartTimeNeverReset(clock, now) == clock

\* The time at which the source is started: the clock, or now + 0.1 s when
\* the clock is less than 0.05 s ahead of now.
StartTime(clock, now) ==
    IF clock < now + UnderrunMarginMs THEN now + RescheduleLeadMs ELSE clock

\* Mutant of DecodeThrows: the odd trailing byte is dropped silently.
DecodeThrowsNever(payload) == FALSE

\* The conversion to samples throws: sampleCount = byteStr.length / 2 is not
\* an integer, so new Float32Array(sampleCount) throws or, where it rounds
\* down, the loop's last view.getInt16 reads past the end of the buffer.
DecodeThrows(payload) == payload.bytes % 2 # 0

handleAudioPlayback(w, v, payload) ==
    IF payload.bytes = 0 THEN w                  \* !payload.data
    ELSE LET w1 == ensurePlaybackContext(w, v)
             c == w1.vs[v].playbackContext
         IN IF DecodeThrows(payload)
            THEN LogError(w1, "Audio playback error")      \* caught
            ELSE LET now == w1.pctx[c].currentTime
                     start == StartTime(w1.vs[v].playbackClock, now)
                 IN [w1 EXCEPT
                       !.scheduled = Append(@, [ctx |-> c, start |-> start,
                                                duration |-> DurationMs(payload),
                                                now |-> now,
                                                clock |-> w1.vs[v].playbackClock]),
                       !.vs[v].playbackClock = start + DurationMs(payload)]

\* socket.onmessage for a message that parses to {type: "audio", data: <string>}.
onmessageAudio(w, v, payload) == handleAudioPlayback(w, v, payload)

\* socket.onmessage for the other messages: no data, text that JSON.parse
\* rejects, {type: "state", value}, and any other object.
MessageKinds == {"empty", "unparsable", "state", "other"}

\* Mutant of onmessage: a message that does not parse closes the socket.
onmessageFatal(w, v, kind) ==
    IF kind = "unparsable"
    THEN WebSocketClose(LogError(w, "Failed to parse WebSocket message"),
                        w.vs[v].socket)
    ELSE w

onmessage(w, v, kind) ==
    IF kind = "unparsable"
    THEN LogError(w, "Failed to parse WebSocket message")
    ELSE IF kind = "state" /\ w.vs[v].callbacks
         THEN [w EXCEPT !.rec.status = "Listening"]      \* socket.onState
         ELSE w

close(w, v) ==
    LET w1 == [w EXCEPT !.vs[v].isClosing = TRUE]
        w2 == IF w1.vs[v].socket # 0
              THEN [WebSocketClose(w1, w1.vs[v].socket) EXCEPT !.vs[v].socket = 0]
              ELSE w1
        w3 == teardownPlayback(w2, v)
    IN [w3 EXCEPT !.vs[v].messageQueue = <<>>]

\* Mutant of onopen: the attempt counter is kept.
onopenKeepsAttempts(w, v) ==
    LET w1 == flushMessageQueue(w, v)
    IN IF w1.vs[v].callbacks THEN RecOnOpen(w1, v) ELSE w1

\* socket.onopen
onopen(w, v) ==
    LET w1 == flushMessageQueue([w EXCEPT !.vs[v].reconnectAttempts = 0], v)
    IN IF w1.vs[v].callbacks THEN RecOnOpen(w1, v) ELSE w1

\* Mutant of ShouldReconnect: <= instead of <.
ShouldReconnectInclusive(isClosingNow, code, attempts) ==
    /\ ~isClosingNow
    /\ code # NormalClosure
    /\ attempts <= maxReconnectAttempts

\* Mutant of ShouldReconnect: the close code is not looked at.
ShouldReconnectAnyCode(isClosingNow, code, attempts) ==
    /\ ~isClosingNow
    /\ attempts < maxReconnectAttempts

\* The condition under which socket.onclose schedules a reconnect.
ShouldReconnect(isClosingNow, code, attempts) ==
    /\ ~isClosingNow
    /\ code # NormalClosure
    /\ attempts < maxReconnectAttempts

\* socket.onclose
onclose(w, v, code) ==
    LET w0 == IF w.vs[v].callbacks THEN RecOnClose(w, v) ELSE w
        w1 == teardownPlayback(w0, v)
    IN IF ShouldReconnect(w1.vs[v].isClosing, code, w1.vs[v].reconnectAttempts)
       THEN [w1 EXCEPT !.vs[v].timers =
                 Append(@, reconnectDelay * w1.vs[v].reconnectAttempts)]
       ELSE IF w1.vs[v].isClosing
            THEN [w1 EXCEPT !.vs[v].isClosing = FALSE]
            ELSE w1

\* socket.onerror
onerror(w, v) ==
    LET w1 == LogError(w, "WebSocket error")
    IN IF w1.vs[v].callbacks THEN RecOnError(w1, v) ELSE w1

\* A timer callback that counts the attempt and does not connect.
ReconnectTimerCallbackIdle(w, v) ==
    [w EXCEPT !.vs[v].reconnectAttempts = @ + 1]

\* The setTimeout callback of onclose.
ReconnectTimerCallback(w, v) ==
    connect([w EXCEPT !.vs[v].reconnectAttempts = @ + 1], v)

\* ------------------------------------------- AudioRecorder: operations
\* The promise connectSocket() returns: 0 for Promise.resolve(), else the
\* promise of connectSocket call v.
connectSocketReturns(w) ==
    IF w.rec.connectedRef /\ w.rec.socketRef # 0 /\ isConnected(w, w.rec.socketRef)
    THEN 0
    ELSE IF w.rec.connectInFlightRef # 0 THEN w.rec.connectInFlightRef
    ELSE w.nextVS

connectSocket(w) ==
    IF w.rec.connectedRef /\ w.rec.socketRef # 0 /\ isConnected(w, w.rec.socketRef)
    THEN w
    ELSE IF w.rec.connectInFlightRef # 0 THEN w
    ELSE LET w1 == IF w.rec.socketRef # 0
                   THEN [close(w, w.rec.socketRef) EXCEPT !.rec.socketRef = 0]
                   ELSE w
             v == w1.nextVS
             w2 == [w1 EXCEPT !.rec.status = "Connecting",
                              !.nextVS = @ + 1,
                              !.vs[v] = [FreshVoiceSocket EXCEPT !.callbacks = TRUE],
                              !.rec.socketRef = v,
                              !.conn[v] = [settled |-> FALSE, outcome |-> "pending"]]
             w3 == init(w2, v)
         IN [w3 EXCEPT !.rec.connectInFlightRef = v]

disconnectSocket(w) ==
    IF w.rec.socketRef # 0
    THEN [close(w, w.rec.socketRef) EXCEPT !.rec.socketRef = 0]     \* return
    ELSE LET w1 == IF w.rec.connectedRef
                   THEN [w EXCEPT !.rec.connectedRef = FALSE,
                                  !.rec.isConnected = FALSE,
                                  !.rec.status = "Disconnected"]
                   ELSE w
         IN stopRecording(stopTransmission(w1))

\* The cleanup of the unmount effect.
unmountCleanup(w) ==
    LET w1 == stopRecording(stopTransmission(w))
        w2 == IF w1.rec.socketRef # 0
              THEN [close(w1, w1.rec.socketRef) EXCEPT !.rec.socketRef = 0]
              ELSE w1
    IN [w2 EXCEPT !.rec.mounted = FALSE]

\* startRecording() after getUserMedia resolved with a new stream; ctxOk:
\* ensureAudioContext can give a context.
startRecordingResume(w, ctxOk) ==
    LET s == w.nextStream
        w1 == [w EXCEPT !.streams[s] = "live", !.nextStream = @ + 1]
        w2 == ensureAudioContext(w1, ctxOk)
    IN IF ~w2.rec.audioContextRef
       THEN w2             \* throw new Error(...): caught, alert
       ELSE [w2 EXCEPT !.rec.streamRef = s,
                       !.recorders[s] = "recording",
                       !.rec.recorderRef = s,
                       !.rec.isRecording = TRUE]

\* startTransmission() from `if (!socketRef.current?.isConnected())` on.
startTransmissionTail(w) ==
    IF w.rec.socketRef = 0 \/ ~isConnected(w, w.rec.socketRef)
    THEN w
    ELSE updateTransmittingState(w, TRUE)

\* startTransmission() up to its first suspension.  isConnected and
\* isRecording are the values of the render that made the callback.  When
\* startRecording() returns at once (recorderRef set) nothing can run before
\* the tail; otherwise the call is suspended at getUserMedia (acquiring).
startTransmission(w) ==
    IF ~w.rec.rendered.isConnected THEN w
    ELSE IF ~w.rec.rendered.isRecording
         THEN IF w.rec.recorderRef # 0
              THEN startTransmissionTail(w)
              ELSE [w EXCEPT !.acquiring = @ + 1,
                             !.probe.stoppedWhileAcquiring = FALSE]
         ELSE startTransmissionTail(w)

\* processAudioChunk(blob) up to its awaits; c: the chunk.
processAudioChunk(w, c, blobEmpty, ctxOk) ==
    IF \/ ~w.rec.isTransmittingRef
       \/ w.rec.socketRef = 0
       \/ ~isConnected(w, w.rec.socketRef)
       \/ blobEmpty
    THEN w
    ELSE LET w1 == ensureAudioContext(w, ctxOk)
         IN IF ~w1.rec.audioContextRef THEN w1
            ELSE [w1 EXCEPT !.decoding = @ \cup {c}]

\* processAudioChunk after decodeAudioData settled: decoded "ok", decoded to
\* an "empty" channel, or "failed" (caught and logged).
\* Mutant of ChunkCatch: the failure ends the recording session.
ChunkCatchStops(w, c) ==
    stopRecording(stopTransmission(
        [LogError(w, "Failed to process audio chunk")
            EXCEPT !.probe.failedChunks = @ \cup {c}]))

\* The catch block of processAudioChunk, for chunk c.
ChunkCatch(w, c) ==
    [LogError(w, "Failed to process audio chunk")
        EXCEPT !.probe.failedChunks = @ \cup {c}]

processAudioChunkResume(w, c, result) ==
    LET w1 == [w EXCEPT !.decoding = @ \ {c}]
    IN IF result = "failed" THEN ChunkCatch(w1, c)
       ELSE IF result = "empty" THEN w1
       ELSE IF w1.rec.socketRef = 0
            THEN ChunkCatch(w1, c)          \* socketRef.current.send throws
            ELSE send(w1, w1.rec.socketRef, c)

\* ----------------------------------------------------------- sequences
RemoveAt(seq, i) == [j \in 1..(Len(seq) - 1) |-> IF j < i THEN seq[j] ELSE seq[j + 1]]
Range(seq) == {seq[i] : i \in 1..Len(seq)}

\* --------------------------------------------------------------- actions
\* The browser delivers `open` to socket s.
SocketOpens(s) ==
    /\ ws[s].readyState = "CONNECTING"
    /\ LET v == ws[s].owner
           w1 == [Cur EXCEPT !.ws[s].readyState = "OPEN", !.ws[s].opened = TRUE]
       IN Set(onopen(w1, v))

\* The codes a close event of socket s can carry: a connection that never
\* opened fails with 1006.
CodesFor(s) == IF ws[s].opened THEN CloseCodes ELSE {AbnormalClosure}

\* Whether the close event is preceded, in the same task, by an error event:
\* always when the connection failed before opening, never on a clean close.
ErrorsFor(s, code) ==
    IF ~ws[s].opened THEN {TRUE}
    ELSE IF code = NormalClosure THEN {FALSE} ELSE BOOLEAN

\* The browser delivers `close` with `code` to socket s, after `error` when
\* withError.
SocketCloses(s, code, withError) ==
    /\ ws[s].readyState \in {"CONNECTING", "OPEN", "CLOSING"}
    /\ code \in CodesFor(s)
    /\ withError \in ErrorsFor(s, code)
    /\ LET v == ws[s].owner
           \* a closed socket is garbage: only its readyState is read again
           w1 == [Cur EXCEPT !.ws[s].readyState = "CLOSED", !.ws[s].opened = FALSE]
           w2 == IF withError THEN onerror(w1, v) ELSE w1
       IN Set(onclose(w2, v, code))

\* The payloads the server sends: 20 ms and 1 s of samples, an odd number of
\* bytes, and empty data.
AudioPayloads ==
    {[bytes |-> 960, sample_rate |-> 0], [bytes |-> 48000, sample_rate |-> 24000],
     [bytes |-> 961, sample_rate |-> 24000], [bytes |-> 0, sample_rate |-> 24000]}

\* The browser delivers an audio message to socket s.
AudioArrives(s, payload) ==
    /\ ws[s].readyState = "OPEN"
    /\ Len(scheduled) < MaxAudio
    /\ ensurePlaybackContext(Cur, ws[s].owner).nextCtx <= MaxCtx + 1
    /\ Set(onmessageAudio(Cur, ws[s].owner, payload))

\* The browser delivers a message that is not audio to socket s.
MessageArrives(s, kind) ==
    /\ ws[s].readyState = "OPEN"
    /\ Set(onmessage(Cur, ws[s].owner, kind))

\* close() of playback context c settles: the awaiting teardownPlayback
\* resumes in its finally block.
TeardownResumes(v, c) ==
    /\ c \in vs[v].teardowns
    /\ LET w1 == [Cur EXCEPT !.pctx[c].state = "closed",
                             !.pctx[c].currentTime = 0,
                             !.vs[v].teardowns = @ \ {c}]
       IN Set(TeardownFinally(w1, v))

\* The output device's clock advances.
Tick ==
    /\ \E c \in CtxIds : pctx[c].state \in {"running", "closing"}
    /\ \A c \in CtxIds : pctx[c].currentTime + TickMs <= MaxTime
    /\ pctx' = [c \in CtxIds |->
                  IF pctx[c].state \in {"running", "closing"}
                  THEN [pctx[c] EXCEPT !.currentTime = @ + TickMs]
                  ELSE pctx[c]]
    /\ UNCHANGED <<vs, ws, nextSock, wire, nextCtx, scheduled, nextVS, rec, conn,
                   streams, recorders, nextStream, acquiring, stopCallbacks,
                   decoding, nextChunk, probe, log, dsp>>

\* A reconnect timer of instance v fires.
TimerFires(v, i, maxSock) ==
    /\ i \in 1..Len(vs[v].timers)
    /\ nextSock <= maxSock
    /\ Set(ReconnectTimerCallback([Cur EXCEPT !.vs[v].timers = RemoveAt(@, i)], v))

\* No socket is pending or alive and no timer is outstanding for v.
Quiescent(v) ==
    /\ vs[v].timers = <<>>
    /\ \A s \in SockIds : ws[s].owner = v => ws[s].readyState = "CLOSED"

\* ---------------------------------------------- actions of the recorder
\* The page calls connect() of the imperative handle.
CallConnect(maxVS, maxSock) ==
    /\ rec.mounted
    /\ connectSocket(Cur).nextVS <= maxVS + 1
    /\ connectSocket(Cur).nextSock <= maxSock + 1
    /\ Set(connectSocket(Cur))

\* The page or the Disconnect button calls disconnectSocket().
CallDisconnect ==
    /\ rec.mounted
    /\ Set(disconnectSocket(Cur))

\* The component unmounts.
Unmount ==
    /\ rec.mounted
    /\ Set(unmountCleanup(Cur))

\* The Start Transmission button calls startTransmission().
CallStartTransmission(maxStreams) ==
    /\ rec.mounted
    /\ ~(~rec.rendered.isConnected \/ rec.rendered.isTransmitting)   \* disabled
    /\ startTransmission(Cur).acquiring + nextStream - 1 <= maxStreams
    /\ Set(startTransmission(Cur))

\* The Stop Transmission button calls stopTransmission().
CallStopTransmission ==
    /\ rec.mounted
    /\ rec.rendered.isTransmitting                                   \* disabled
    /\ Set(stopTransmission(Cur))

\* getUserMedia resolves for one suspended startRecording(); startRecording
\* runs to its end and the awaiting startTransmission() continues.
GetUserMediaResolves(ctxOk) ==
    /\ acquiring > 0
    /\ LET w1 == [Cur EXCEPT !.acquiring = @ - 1,
                             !.probe.stoppedWhileAcquiring = FALSE]
       IN Set(startTransmissionTail(startRecordingResume(w1, ctxOk)))

\* getUserMedia rejects: startRecording catches the error and returns, and
\* the awaiting startTransmission() continues.
GetUserMediaRejects ==
    /\ acquiring > 0
    /\ Set(startTransmissionTail([Cur EXCEPT !.acquiring = @ - 1,
                                              !.probe.stoppedWhileAcquiring = FALSE]))

\* RecordRTC invokes the callback of an earlier stopRecording.
StopCallbackFires(r) ==
    /\ r \in stopCallbacks
    /\ Set([Cur EXCEPT !.stopCallbacks = @ \ {r}, !.rec.recorderRef = 0])

\* A running recorder delivers a chunk (ondataavailable).
ChunkDelivered(r, blobEmpty, ctxOk) ==
    /\ r \in StreamIds
    /\ recorders[r] = "recording"
    /\ nextChunk <= MaxChunks
    /\ Set(processAudioChunk([Cur EXCEPT !.nextChunk = @ + 1], nextChunk,
                             blobEmpty, ctxOk))

\* The decode of chunk c settles.
DecodeSettles(c, result) ==
    /\ c \in decoding
    /\ Set(processAudioChunkResume(Cur, c, result))

\* The useState values of the component.
StateOf(r) ==
    [isConnected |-> r.isConnected, isRecording |-> r.isRecording,
     isTransmitting |-> r.isTransmitting]

\* React renders: the callbacks and the buttons now see the current state.
Render ==
    /\ rec.mounted
    /\ rec.rendered # StateOf(rec)
    /\ Set([Cur EXCEPT !.rec.rendered = StateOf(rec)])

\* ------------------------------------------------------------- observers
ObserveOpen ==
    /\ closeRun' = IF closeRun >= 0 THEN 0 ELSE closeRun
    /\ attemptsRun' = IF closeRun >= 0 THEN 0 ELSE attemptsRun
    /\ UNCHANGED <<nextFrame, viaQueue, discarded, lastCloseCode, closedByCaller>>

ObserveClose(code) ==
    /\ closeRun' = IF closeRun >= 0 /\ code # NormalClosure THEN closeRun + 1 ELSE -1
    /\ lastCloseCode' = code
    /\ UNCHANGED <<nextFrame, viaQueue, discarded, attemptsRun, closedByCaller>>

ObserveTimer ==
    /\ attemptsRun' = IF closeRun >= 0 THEN attemptsRun + 1 ELSE attemptsRun
    /\ UNCHANGED <<nextFrame, viaQueue, discarded, closeRun, lastCloseCode,
                   closedByCaller>>

\* A caller invokes init().
CallInit(v, maxSock, maxInits) ==
    /\ nextSock <= maxSock
    /\ inits < maxInits
    /\ Set(init(Cur, v))
    /\ inits' = inits + 1

ObserveInit(v) ==
    /\ discarded' = discarded \cup Range(vs[v].messageQueue)
    /\ closedByCaller' = FALSE
    /\ closeRun' = IF Quiescent(v) THEN 0 ELSE -1
    /\ attemptsRun' = 0
    /\ UNCHANGED <<nextFrame, viaQueue, lastCloseCode>>

\* A caller invokes close().
CallClose(v) ==
    /\ Set(close(Cur, v))
    /\ UNCHANGED inits

ObserveCloseCall(v) ==
    /\ discarded' = discarded \cup Range(vs[v].messageQueue)
    /\ closedByCaller' = TRUE
    /\ closeRun' = -1
    /\ UNCHANGED <<nextFrame, viaQueue, attemptsRun, lastCloseCode>>

\* A caller invokes send(frame) with the next frame.
CallSend(v) ==
    /\ nextFrame <= MaxFrames
    /\ Set(send(Cur, v, nextFrame))
    /\ nextFrame' = nextFrame + 1
    /\ viaQueue' = IF SocketIsOpen(Cur, v) THEN viaQueue ELSE viaQueue \cup {nextFrame}
    /\ UNCHANGED <<inits, discarded, closeRun, attemptsRun, closedByCaller, lastCloseCode>>

\* ------------------------------------------------------ the frame codec
\* Byte strings are sequences of char codes 0..255; base64 text is a
\* sequence of alphabet indices 0..63, with 64 for the padding character.
\* A float sample is held exactly, as a numerator over a denominator.
chunkSize == 32768          \* 0x8000
PcmScale == 32768
Base64Pad == 64

SeqsUpTo(S, n) == UNION {[1..k -> S] : k \in 0..n}

\* new Uint8Array(pcmData.buffer) on a host that stores the high byte first.
Uint8ViewHighByteFirst(pcmData) ==
    [k \in 1..(2 * Len(pcmData)) |->
        LET u == (pcmData[(k + 1) \div 2] + 65536) % 65536
        IN  IF k % 2 = 1 THEN u \div 256 ELSE u % 256]

\* new Uint8Array(pcmData.buffer): the bytes of the Int16Array in the byte
\* order of the host; the hosts the page runs on (x86, ARM) store the two's
\* complement low byte first.
Uint8View(pcmData) ==
    [k \in 1..(2 * Len(pcmData)) |->
        LET u == (pcmData[(k + 1) \div 2] + 65536) % 65536
        IN  IF k % 2 = 1 THEN u % 256 ELSE u \div 256]

\* The loop of encodePCMToBase64: binary += String.fromCharCode(...chunk)
\* for the subarrays of chunkSize bytes starting at byte i (1-based here).
RECURSIVE BinaryFrom(_, _)
BinaryFrom(uint8View, i) ==
    IF i > Len(uint8View) THEN <<>>
    ELSE LET last == IF i + chunkSize - 1 < Len(uint8View)
                     THEN i + chunkSize - 1 ELSE Len(uint8View)
         IN  SubSeq(uint8View, i, last) \o BinaryFrom(uint8View, i + chunkSize)

\* btoa(binary): three bytes become four 6-bit digits; a tail of one or two
\* bytes is padded.
RECURSIVE btoa(_)
btoa(binary) ==
    IF Len(binary) = 0 THEN <<>>
    ELSE IF Len(binary) = 1 THEN
        <<binary[1] \div 4, (binary[1] % 4) * 16, Base64Pad, Base64Pad>>
    ELSE IF Len(binary) = 2 THEN
        <<binary[1] \div 4, (binary[1] % 4) * 16 + binary[2] \div 16,
          (binary[2] % 16) * 4, Base64Pad>>
    ELSE
        <<binary[1] \div 4, (binary[1] % 4) * 16 + binary[2] \div 16,
          (binary[2] % 16) * 4 + binary[3] \div 64, binary[3] % 64>>
            \o btoa(SubSeq(binary, 4, Len(binary)))

encodePCMToBase64(pcmData) == btoa(BinaryFrom(Uint8View(pcmData), 1))

\* atob(data) of well-formed base64 text: four digits become three bytes,
\* fewer where the group is padded.
RECURSIVE atob(_)
atob(data) ==
    IF Len(data) < 4 THEN <<>>
    ELSE LET b1 == data[1] * 4 + data[2] \div 16
             b2 == (data[2] % 16) * 16 + data[3] \div 4
             b3 == (data[3] % 4) * 64 + data[4]
             group == IF data[3] = Base64Pad THEN <<b1>>
                      ELSE IF data[4] = Base64Pad THEN <<b1, b2>>
                      ELSE <<b1, b2, b3>>
         IN  group \o atob(SubSeq(data, 5, Len(data)))

\* view.getInt16(byteOffset, true): little-endian read, two's complement.
getInt16(bytes, byteOffset) ==
    LET u == bytes[byteOffset + 1] + 256 * bytes[byteOffset + 2]
    IN  IF u >= 32768 THEN u - 65536 ELSE u

\* The decode of handleAudioPlayback for an even byte count: the Float32Array
\* holding sample / 32768 for each little-endian int16 of atob(payload.data).
DecodeFloat32(data) ==
    LET byteStr == atob(data)
        sampleCount == Len(byteStr) \div 2
    IN  [i \in 1..sampleCount |->
            [num |-> getInt16(byteStr, (i - 1) * 2), den |-> PcmScale]]

\* The capture side encodes the Int16Array under study.
EncodeFrame ==
    /\ dsp.stage = "pcm"
    /\ dsp' = [stage |-> "encoded", pcmData |-> dsp.pcmData,
               data |-> encodePCMToBase64(dsp.pcmData)]
    /\ UNCHANGED <<heapVars, obsVars, inits>>

\* The playback side decodes the payload.
DecodeFrame ==
    /\ dsp.stage = "encoded"
    /\ dsp' = [stage |-> "decoded", pcmData |-> dsp.pcmData, data |-> dsp.data,
               float32 |-> DecodeFloat32(dsp.data)]
    /\ UNCHANGED <<heapVars, obsVars, inits>>

\* ------------------------------------------- the conditioner and quantizer
\* A float sample of the capture pipeline is held in fixed point, as an
\* integer number of 1/Unit.  Inputs are multiples of 1/200 and every
\* smoothing step divides by 25, so with Unit = 200 * 25^MaxRawLen the
\* arithmetic of a chunk of up to MaxRawLen samples is exact; the rounding of
\* the IEEE operations (relative error below 1e-7) is not modelled.
Unit == 200 * 25^MaxRawLen
noiseGateThreshold == [num |-> 15, den |-> 1000]     \* 0.015
smoothingFactor == [num |-> 12, den |-> 100]         \* 0.12

\* q * x for a decimal constant q and a fixed-point x (exact, see above).
Times(q, x) == (q.num * x) \div q.den
Abs(x) == IF x < 0 THEN -x ELSE x

\* prev + smoothingFactor * (raw - prev)
Smooth(prev, raw) == prev + Times(smoothingFactor, raw - prev)

\* A gate that lets every sample through.
GateOpen(smooth) == smooth

\* Math.abs(smooth) < noiseGateThreshold ? 0 : smooth
Gate(smooth) == IF Abs(smooth) < Times(noiseGateThreshold, Unit) THEN 0 ELSE smooth

\* The smoothing loop of processAudioChunk from sample i on: denoised[i] is
\* the gated value, prev becomes the value before the gate.
RECURSIVE DenoiseFrom(_, _, _)
DenoiseFrom(channelData, i, prev) ==
    IF i > Len(channelData) THEN <<>>
    ELSE LET smooth == Smooth(prev, channelData[i])
         IN  <<Gate(smooth)>> \o DenoiseFrom(channelData, i + 1, smooth)

Denoise(channelData) == DenoiseFrom(channelData, 1, 0)

\* sample * 32768 as its floor (whole) and the rest (frac, in 1/(Unit/8)):
\* sample * 32768 / Unit = sample * 4096 / (Unit / 8).
Scaled(sample) ==
    LET d == Unit \div 8
        r == (sample % d) * (PcmScale \div 8)
    IN  [whole |-> (sample \div d) * (PcmScale \div 8) + r \div d,
         frac |-> r % d]

\* Math.min(32767, x)
MathMin32767(x) ==
    IF x.whole >= 32767 THEN [whole |-> 32767, frac |-> 0] ELSE x

\* Math.max(-32768, x)
MathMaxNeg32768(x) ==
    IF x.whole < -32768 THEN [whole |-> -32768, frac |-> 0] ELSE x

\* A quantizer without the two bounds.
ClampNone(x) == x

\* Math.max(-32768, Math.min(32767, x))
Clamp(x) == MathMaxNeg32768(MathMin32767(x))

\* pcmData[i] = x: the store into an Int16Array drops the fraction (toward
\* zero) and keeps the low 16 bits, two's complement.
ToInt16(x) ==
    LET int == IF x.whole >= 0 \/ x.frac = 0 THEN x.whole ELSE x.whole + 1
    IN  ((int + 32768) % 65536) - 32768

\* The quantize loop of processAudioChunk.
Quantize(denoised) ==
    [i \in 1..Len(denoised) |-> ToInt16(Clamp(Scaled(denoised[i])))]

\* The decoded chunk under study goes through the smoothing loop.
ConditionChunk ==
    /\ dsp.stage = "raw"
    /\ dsp' = [stage |-> "denoised", channelData |-> dsp.channelData,
               denoised |-> Denoise(dsp.channelData)]
    /\ UNCHANGED <<heapVars, obsVars, inits>>

\* The denoised chunk goes through the quantize loop.
QuantizeChunk ==
    /\ dsp.stage = "denoised"
    /\ dsp' = [stage |-> "quantized", channelData |-> dsp.channelData,
               denoised |-> dsp.denoised, pcmData |-> Quantize(dsp.denoised)]
    /\ UNCHANGED <<heapVars, obsVars, inits>>

\* -------------------------------------------------------- specifications
\* One VoiceSocket instance driven by an arbitrary caller and network.
InitIdle ==
    /\ vs = [v \in VSIds |-> FreshVoiceSocket]
    /\ ws = [s \in SockIds |-> NoSocket]
    /\ nextSock = 1
    /\ wire = <<>>
    /\ pctx = [c \in CtxIds |-> NoContext]
    /\ nextCtx = 1
    /\ scheduled = <<>>
    /\ nextVS = 2
    /\ rec = FreshRecorder
    /\ conn = [v \in VSIds |-> NoConn]
    /\ streams = [s \in StreamIds |-> "none"]
    /\ recorders = [s \in StreamIds |-> "none"]
    /\ nextStream = 1
    /\ acquiring = 0
    /\ stopCallbacks = {}
    /\ decoding = {}
    /\ nextChunk = 1
    /\ probe = FreshProbe
    /\ log = {}
    /\ nextFrame = 1
    /\ inits = 0
    /\ viaQueue = {}
    /\ discarded = {}
    /\ closeRun = -1
    /\ lastCloseCode = 0
    /\ attemptsRun = 0
    /\ closedByCaller = FALSE

InitSocket == InitIdle /\ dsp = NoSignal

NextSocket ==
    \/ CallInit(1, MaxSock, MaxInits) /\ ObserveInit(1)
    \/ CallClose(1) /\ ObserveCloseCall(1)
    \/ \E s \in SockIds : SocketOpens(s) /\ ObserveOpen /\ UNCHANGED inits
    \/ \E s \in SockIds, code \in CloseCodes, e \in BOOLEAN :
          SocketCloses(s, code, e) /\ ObserveClose(code) /\ UNCHANGED inits
    \/ \E i \in SockIds : TimerFires(1, i, MaxSock) /\ ObserveTimer /\ UNCHANGED inits

SpecSocket == InitSocket /\ [][NextSocket]_vars

\* The same instance initialised once, with the event loop running every
\* setTimeout callback whose delay has elapsed: a reconnect timer that stays
\* outstanding fires.
NextRecover ==
    \/ CallInit(1, MaxFairSock, 1) /\ ObserveInit(1)
    \/ CallClose(1) /\ ObserveCloseCall(1)
    \/ \E s \in SockIds : SocketOpens(s) /\ ObserveOpen /\ UNCHANGED inits
    \/ \E s \in SockIds, code \in CloseCodes, e \in BOOLEAN :
          SocketCloses(s, code, e) /\ ObserveClose(code) /\ UNCHANGED inits
    \/ \E i \in SockIds : TimerFires(1, i, MaxFairSock) /\ ObserveTimer /\ UNCHANGED inits

SpecSocketFair ==
    /\ InitSocket
    /\ [][NextRecover]_vars
    /\ WF_vars(\E i \in SockIds :
                   TimerFires(1, i, MaxFairSock) /\ ObserveTimer /\ UNCHANGED inits)

\* The same instance with a caller that also submits frames.
NextQueue ==
    \/ CallInit(1, MaxQueueSock, MaxInits) /\ ObserveInit(1)
    \/ CallClose(1) /\ ObserveCloseCall(1)
    \/ CallSend(1)
    \/ \E s \in SockIds : SocketOpens(s) /\ ObserveOpen /\ UNCHANGED inits
    \/ \E s \in SockIds, code \in CloseCodes, e \in BOOLEAN :
          SocketCloses(s, code, e) /\ ObserveClose(code) /\ UNCHANGED inits
    \/ \E i \in SockIds : TimerFires(1, i, MaxQueueSock) /\ ObserveTimer /\ UNCHANGED inits

SpecQueue == InitSocket /\ [][NextQueue]_vars

\* The same instance receiving audio while the output clock advances; its
\* owner calls init() once, as connectSocket does.
NextPlayback ==
    \/ CallInit(1, MaxPlaySock, 1) /\ UNCHANGED obsVars
    \/ CallClose(1) /\ UNCHANGED obsVars
    \/ \E s \in SockIds : SocketOpens(s) /\ UNCHANGED <<obsVars, inits>>
    \/ \E s \in SockIds, code \in CloseCodes, e \in BOOLEAN :
          SocketCloses(s, code, e) /\ UNCHANGED <<obsVars, inits>>
    \/ \E i \in SockIds : TimerFires(1, i, MaxPlaySock) /\ UNCHANGED <<obsVars, inits>>
    \/ \E s \in SockIds, payload \in AudioPayloads :
          AudioArrives(s, payload) /\ UNCHANGED <<obsVars, inits>>
    \/ \E s \in SockIds, kind \in MessageKinds :
          MessageArrives(s, kind) /\ UNCHANGED <<obsVars, inits>>
    \/ \E c \in CtxIds : TeardownResumes(1, c) /\ UNCHANGED <<obsVars, inits>>
    \/ Tick /\ UNCHANGED <<obsVars, inits>>

SpecPlayback == InitSocket /\ [][NextPlayback]_vars

\* The mounted AudioRecorder with its page, microphone and network.
InitRecorder ==
    /\ vs = [v \in VSIds |-> FreshVoiceSocket]
    /\ ws = [s \in SockIds |-> NoSocket]
    /\ nextSock = 1
    /\ wire = <<>>
    /\ pctx = [c \in CtxIds |-> NoContext]
    /\ nextCtx = 1
    /\ scheduled = <<>>
    /\ nextVS = 1
    /\ rec = FreshRecorder
    /\ conn = [v \in VSIds |-> NoConn]
    /\ streams = [s \in StreamIds |-> "none"]
    /\ recorders = [s \in StreamIds |-> "none"]
    /\ nextStream = 1
    /\ acquiring = 0
    /\ stopCallbacks = {}
    /\ decoding = {}
    /\ nextChunk = 1
    /\ probe = FreshProbe
    /\ log = {}
    /\ nextFrame = 1
    /\ inits = 0
    /\ viaQueue = {}
    /\ discarded = {}
    /\ closeRun = -1
    /\ lastCloseCode = 0
    /\ attemptsRun = 0
    /\ closedByCaller = FALSE
    /\ dsp = NoSignal

\* The connection lifecycle: the page connects and disconnects, the
\* component unmounts, the network opens and closes sockets.
NextConnect ==
    \/ CallConnect(MaxVS, MaxRecSock) /\ UNCHANGED <<obsVars, inits>>
    \/ CallDisconnect /\ UNCHANGED <<obsVars, inits>>
    \/ Unmount /\ UNCHANGED <<obsVars, inits>>
    \/ Render /\ UNCHANGED <<obsVars, inits>>
    \/ \E s \in SockIds : SocketOpens(s) /\ UNCHANGED <<obsVars, inits>>
    \/ \E s \in SockIds, code \in CloseCodes, e \in BOOLEAN :
          SocketCloses(s, code, e) /\ UNCHANGED <<obsVars, inits>>
    \/ \E v \in VSIds, i \in SockIds :
          TimerFires(v, i, MaxRecSock) /\ UNCHANGED <<obsVars, inits>>

SpecConnect == InitRecorder /\ [][NextConnect]_vars

\* The microphone: the user starts and stops transmission over the
\* connection while the page connects and disconnects.
NextCapture ==
    \/ CallConnect(MaxCapVS, MaxCapSock) /\ UNCHANGED <<obsVars, inits>>
    \/ CallDisconnect /\ UNCHANGED <<obsVars, inits>>
    \/ Unmount /\ UNCHANGED <<obsVars, inits>>
    \/ CallStartTransmission(MaxStreams) /\ UNCHANGED <<obsVars, inits>>
    \/ CallStopTransmission /\ UNCHANGED <<obsVars, inits>>
    \/ \E ok \in BOOLEAN : GetUserMediaResolves(ok) /\ UNCHANGED <<obsVars, inits>>
    \/ GetUserMediaRejects /\ UNCHANGED <<obsVars, inits>>
    \/ \E r \in StreamIds : StopCallbackFires(r) /\ UNCHANGED <<obsVars, inits>>
    \/ Render /\ UNCHANGED <<obsVars, inits>>
    \/ \E s \in SockIds : SocketOpens(s) /\ UNCHANGED <<obsVars, inits>>
    \/ \E s \in SockIds, code \in CloseCodes, e \in BOOLEAN :
          SocketCloses(s, code, e) /\ UNCHANGED <<obsVars, inits>>
    \/ \E v \in VSIds, i \in SockIds :
          TimerFires(v, i, MaxCapSock) /\ UNCHANGED <<obsVars, inits>>

SpecCapture == InitRecorder /\ [][NextCapture]_vars

\* The chunk pipeline: the recorder delivers chunks, which are decoded,
\* encoded and handed to the socket.  The page connects once and the
\* microphone is acquired once.
NextTransmit ==
    \/ CallConnect(1, MaxTxSock) /\ UNCHANGED <<obsVars, inits>>
    \/ CallDisconnect /\ UNCHANGED <<obsVars, inits>>
    \/ Unmount /\ UNCHANGED <<obsVars, inits>>
    \/ CallStartTransmission(1) /\ UNCHANGED <<obsVars, inits>>
    \/ CallStopTransmission /\ UNCHANGED <<obsVars, inits>>
    \/ \E ok \in BOOLEAN : GetUserMediaResolves(ok) /\ UNCHANGED <<obsVars, inits>>
    \/ GetUserMediaRejects /\ UNCHANGED <<obsVars, inits>>
    \/ \E r \in StreamIds : StopCallbackFires(r) /\ UNCHANGED <<obsVars, inits>>
    \/ \E r \in StreamIds, e \in BOOLEAN, ok \in BOOLEAN :
          ChunkDelivered(r, e, ok) /\ UNCHANGED <<obsVars, inits>>
    \/ \E c \in 1..(MaxChunks + 1), result \in {"ok", "empty", "failed"} :
          DecodeSettles(c, result) /\ UNCHANGED <<obsVars, inits>>
    \/ Render /\ UNCHANGED <<obsVars, inits>>
    \/ \E s \in SockIds : SocketOpens(s) /\ UNCHANGED <<obsVars, inits>>
    \/ \E s \in SockIds, code \in CloseCodes, e \in BOOLEAN :
          SocketCloses(s, code, e) /\ UNCHANGED <<obsVars, inits>>
    \/ \E v \in VSIds, i \in SockIds :
          TimerFires(v, i, MaxTxSock) /\ UNCHANGED <<obsVars, inits>>

SpecTransmit == InitRecorder /\ [][NextTransmit]_vars

\* The frame codec on its own: an Int16Array is encoded as the capture side
\* does it and the payload is decoded as the playback side does it.
InitCodec ==
    /\ InitIdle
    /\ dsp \in {[stage |-> "pcm", pcmData |-> p] : p \in SeqsUpTo(PcmSamples, MaxPcmLen)}

NextCodec ==
    \/ EncodeFrame
    \/ DecodeFrame

SpecCodec == InitCodec /\ [][NextCodec]_vars

\* The conditioner and the quantizer on their own: a non-empty decoded chunk
\* (an empty one makes processAudioChunk return) is smoothed, gated and
\* quantized.
InitConditioner ==
    /\ InitIdle
    /\ dsp \in {[stage |-> "raw",
                 channelData |-> [i \in 1..Len(c) |-> c[i] * (Unit \div 200)]] :
                    c \in SeqsUpTo(RawSamples, MaxRawLen) \ {<<>>}}

NextConditioner ==
    \/ ConditionChunk
    \/ QuantizeChunk

SpecConditioner == InitConditioner /\ [][NextConditioner]_vars

\* ================================================================ claims
Min(a, b) == IF a < b THEN a ELSE b
QueueOf(v) == vs[v].messageQueue
WireFrames == {wire[i][2] : i \in 1..Len(wire)}
StrictlyIncreasing(seq) == \A i, j \in 1..Len(seq) : i < j => seq[i] < seq[j]

\* C1: frames submitted while the socket is not open wait in the queue in
\* submission order (frame ids grow with submission); once the socket is
\* open the queue is empty, every frame submitted so far that init()/close()
\* did not discard is on the wire exactly once, and the frames on each socket
\* are in submission order, so a queued frame precedes every later frame.
C1_QueueFlushedInOrder ==
    /\ StrictlyIncreasing(QueueOf(1))
    /\ \A i, j \in 1..Len(wire) :
           (i < j /\ wire[i][1] = wire[j][1]) => wire[i][2] < wire[j][2]
    /\ SocketIsOpen(Cur, 1) => QueueOf(1) = <<>>
    /\ viaQueue \subseteq (Range(QueueOf(1)) \cup WireFrames \cup discarded)
    /\ Range(QueueOf(1)) \cup WireFrames \cup discarded = 1..(nextFrame - 1)
    /\ Range(QueueOf(1)) \cap WireFrames = {}
    /\ Len(wire) = Cardinality(WireFrames)

\* Two frames that were queued went out on one socket, in order, ahead of a
\* frame submitted after the open.
C1_Witness ==
    \E s \in SockIds :
        /\ wire = <<(<<s, 1>>), (<<s, 2>>), (<<s, 3>>)>>
        /\ viaQueue = {1, 2}

\* C2: in a run of consecutive non-1000 closes that starts from attempt
\* counter 0 with no open, init() or close() in between, the reconnects made
\* plus the one scheduled number min(closes, 5); after the 6th close no timer
\* is outstanding, 5 reconnect sockets were made and every socket is closed.
C2_FiveReconnectsThenStop ==
    closeRun >= 0 =>
        /\ attemptsRun + Len(vs[1].timers) = Min(closeRun, 5)
        /\ closeRun <= 6
        /\ closeRun = 6 =>
              /\ attemptsRun = 5
              /\ vs[1].timers = <<>>
              /\ ~isConnected(Cur, 1)
              /\ \A s \in SockIds : ws[s].readyState \in {"NONE", "CLOSED"}

C2_Witness == closeRun = 6 /\ attemptsRun = 5

\* C3 (as claimed): after close() and until init() is called again, the
\* instance opens no new socket.
C3_NoSocketAfterClose ==
    [][(closedByCaller /\ closedByCaller') => nextSock' = nextSock]_vars

\* C4: a close event with code 1000 schedules no reconnect timer, whatever
\* the attempt counter and whether or not close() was called.
C4_NormalCloseNeverReconnects ==
    [][\A s \in SockIds :
          SocketCloses(s, NormalClosure, FALSE) => vs'[1].timers = vs[1].timers]_vars

\* A 1000 close arrived unsolicited, with reconnect budget left.
C4_Witness ==
    /\ lastCloseCode = NormalClosure
    /\ ~closedByCaller
    /\ ~vs[1].isClosing
    /\ vs[1].reconnectAttempts < maxReconnectAttempts
    /\ vs[1].timers = <<>>
    /\ Quiescent(1)

\* C5: connect() opens no socket when the transport is already Connected,
\* and while a connection attempt is pending it returns that attempt's
\* promise and opens no socket.
RecorderConnected ==
    /\ rec.connectedRef
    /\ rec.socketRef # 0
    /\ isConnected(Cur, rec.socketRef)

C5_ConnectOpensNoSecondSocket ==
    [][CallConnect(MaxVS, MaxRecSock) =>
         /\ RecorderConnected => nextSock' = nextSock
         /\ \A v \in VSIds :
               conn[v].outcome = "pending" =>
                   /\ nextSock' = nextSock
                   /\ connectSocketReturns(Cur) = v]_vars

\* C6: when disconnect() or the unmount cleanup returns, the transmit flag is
\* clear, the recorder and the stream the component holds are stopped, and
\* the socket of the instance it holds has been asked to close.
HeldSocketClosing ==
    LET v == rec.socketRef
    IN (v # 0 /\ vs[v].socket # 0) =>
           ws'[vs[v].socket].readyState \notin {"CONNECTING", "OPEN"}

CaptureStopped ==
    /\ ~rec'.isTransmittingRef
    /\ rec'.streamRef = 0
    /\ rec.streamRef # 0 => streams'[rec.streamRef] = "stopped"
    /\ rec.recorderRef # 0 => recorders'[rec.recorderRef] = "stopped"

C6_DisconnectStopsEverything ==
    [][(CallDisconnect \/ Unmount) => (CaptureStopped /\ HeldSocketClosing)]_vars

\* C7: a chunk's frame is handed to VoiceSocket.send only when the transmit
\* flag is set at that moment.
FrameHandedOff ==
    \/ Len(wire') > Len(wire)
    \/ \E v \in VSIds : Len(vs'[v].messageQueue) > Len(vs[v].messageQueue)

C7_HandOffOnlyWhileTransmitting ==
    [][\A c \in 1..(MaxChunks + 1), result \in {"ok", "empty", "failed"} :
          (DecodeSettles(c, result) /\ FrameHandedOff) => rec.isTransmittingRef]_vars

\* C8: startTransmission() called while the socket the component holds is
\* not connected begins no microphone acquisition and leaves the transmit
\* flag clear.
TransportConnected ==
    /\ rec.socketRef # 0
    /\ isConnected(Cur, rec.socketRef)

C8_NoCaptureWhenNotConnected ==
    [][(CallStartTransmission(MaxStreams) /\ ~TransportConnected) =>
          /\ acquiring' = acquiring
          /\ ~rec'.isTransmittingRef]_vars

\* C9: as long as stopRecording() has not been called, at most one
\* microphone stream is live and at most one recorder is recording.
LiveStreams == {s \in StreamIds : streams[s] = "live"}
RunningRecorders == {r \in StreamIds : recorders[r] = "recording"}

C9_OneStreamOneRecorder ==
    ~probe.stopRecordingCalled =>
        /\ Cardinality(LiveStreams) <= 1
        /\ Cardinality(RunningRecorders) <= 1

\* C10: within one playback context, a frame that arrives while the clock is
\* at least now + 50 ms starts exactly where the previous frame ends; frames
\* never overlap and keep their arrival order; three 1-second frames that
\* arrive at the same instant start at t0, t0 + 1 s, t0 + 2 s, t0 >= now + 100 ms.
C10_BackToBack ==
    /\ \A i \in 2..Len(scheduled) :
          LET e == scheduled[i]
              p == scheduled[i - 1]
          IN /\ (e.ctx = p.ctx /\ e.clock >= e.now + 50) =>
                   e.start = p.start + p.duration
             /\ e.ctx = p.ctx => e.start >= p.start + p.duration
             /\ e.ctx # p.ctx => e.clock < e.now + 50
    /\ Len(scheduled) >= 1 => scheduled[1].clock < scheduled[1].now + 50
    /\ \A i \in 3..Len(scheduled) :
          LET a == scheduled[i - 2]
              b == scheduled[i - 1]
              c == scheduled[i]
          IN (/\ a.ctx = b.ctx /\ b.ctx = c.ctx
              /\ a.now = b.now /\ b.now = c.now
              /\ a.clock < a.now + 50
              /\ a.duration = 1000 /\ b.duration = 1000 /\ c.duration = 1000)
             => /\ a.start >= a.now + 100
                /\ b.start = a.start + 1000
                /\ c.start = a.start + 2000

\* Three 1-second frames arrived with no delay in one context.
C10_Witness ==
    /\ Len(scheduled) = 3
    /\ \A i \in 1..3 : scheduled[i].duration = 1000 /\ scheduled[i].now = 0
                         /\ scheduled[i].ctx = 1
    /\ scheduled[2].clock >= scheduled[2].now + 50

\* C11: a frame that arrives while the playback clock is below now + 50 ms
\* (a new context starts with clock = now) is started at exactly now + 100 ms
\* and leaves the clock at now + 100 ms + the frame's duration.
C11_UnderrunReschedules ==
    [][\A s \in SockIds, payload \in AudioPayloads :
          (AudioArrives(s, payload) /\ Len(scheduled') > Len(scheduled)) =>
              LET v == ws[s].owner
                  c == vs[v].playbackContext
                  fresh == c = 0 \/ pctx[c].state = "closed"
                  now == IF fresh THEN 0 ELSE pctx[c].currentTime
                  clock == IF fresh THEN 0 ELSE vs[v].playbackClock
                  e == scheduled'[Len(scheduled')]
              IN clock < now + 50 =>
                    /\ e.start = now + 100
                    /\ vs'[v].playbackClock = now + 100 + DurationMs(payload)]_vars

\* A frame arrived after the clock of a running context had fallen behind,
\* and another as the first frame of a context.
C11_Witness ==
    /\ \E i \in 1..Len(scheduled) :
          LET e == scheduled[i]
          IN e.clock > 0 /\ e.now > 0 /\ e.clock < e.now + 50 /\ e.start = e.now + 100
    /\ scheduled[1].clock = 0 /\ scheduled[1].start = 100

\* C12: an audio message whose data has an odd number of bytes logs a
\* playback error, schedules no source, leaves the playback clock where it
\* was and leaves the socket, the attempt counter and the timers alone.
C12_OddBytesRejected ==
    [][\A s \in SockIds, payload \in AudioPayloads :
          (AudioArrives(s, payload) /\ payload.bytes % 2 = 1) =>
              LET v == ws[s].owner
              IN /\ "Audio playback error" \in log'
                 /\ scheduled' = scheduled
                 /\ vs'[v].playbackClock = vs[v].playbackClock
                 /\ ws' = ws
                 /\ vs'[v].socket = vs[v].socket
                 /\ vs'[v].timers = vs[v].timers
                 /\ vs'[v].reconnectAttempts = vs[v].reconnectAttempts]_vars

\* The odd payload arrived between good frames: the socket is still open
\* and the clock is that of the frame scheduled before it.
C12_Witness ==
    /\ log = {"Audio playback error"}
    /\ SocketIsOpen(Cur, 1)
    /\ Len(scheduled) = 1
    /\ vs[1].playbackClock = scheduled[1].start + scheduled[1].duration

\* C13: a message that does not parse is logged and changes nothing else:
\* the sockets, the timers, the attempt counter, the queue, the playback
\* clock and the scheduled sources are as before, and the socket still
\* takes messages.
C13_UnparsableDiscarded ==
    [][\A s \in SockIds :
          MessageArrives(s, "unparsable") =>
              /\ log' = {"Failed to parse WebSocket message"}
              /\ ws' = ws
              /\ vs' = vs
              /\ scheduled' = scheduled
              /\ wire' = wire
              /\ ws'[s].readyState = "OPEN"]_vars

\* The unparsable message arrived on an open socket with a frame scheduled
\* and the clock running.
C13_Witness ==
    /\ log = {"Failed to parse WebSocket message"}
    /\ SocketIsOpen(Cur, 1)
    /\ Len(scheduled) = 2
    /\ vs[1].playbackClock > 0

\* C14 (as claimed): the reconnect timer scheduled by a close event is the
\* k-th attempt since the last open, k = attempt counter + 1, and its delay
\* is k x 1000 ms.
C14_DelayIsAttemptTimesBase ==
    [][Len(vs'[1].timers) > Len(vs[1].timers) =>
          vs'[1].timers[Len(vs'[1].timers)] =
              1000 * (vs[1].reconnectAttempts + 1)]_vars

\* C15: every open event leaves the attempt counter of the socket's
\* instance at zero; while the instance's socket is open the counter is
\* zero, and in a run of unsolicited closes the counter is the number of
\* reconnects made since the open (or init()) that started the run, so the
\* run has 5 attempts whatever was used up before the open.
C15_OpenResetsAttempts ==
    /\ [][\A s \in SockIds :
             SocketOpens(s) => vs'[ws[s].owner].reconnectAttempts = 0]_vars
    /\ [](SocketIsOpen(Cur, 1) => vs[1].reconnectAttempts = 0)
    /\ [](closeRun >= 0 =>
             /\ vs[1].reconnectAttempts = attemptsRun
             /\ attemptsRun <= 5
             /\ (closeRun > attemptsRun /\ attemptsRun < 5) => Len(vs[1].timers) = 1)

\* One init(): a reconnect opened, and the closes after it were followed by
\* 5 more reconnects (7 sockets in all) before the instance gave up.
C15_Witness ==
    /\ inits = 1
    /\ nextSock = 8
    /\ closeRun = 6
    /\ attemptsRun = 5
    /\ vs[1].timers = <<>>

\* C16 (as claimed): when the only startRecording() in progress fails, by
\* getUserMedia rejecting or by no audio context being available, then no
\* stream is live, no recorder is recording, the recording flag is false and
\* the transmit flag is clear.
StartRecordingFails ==
    \/ GetUserMediaRejects
    \/ GetUserMediaResolves(FALSE) /\ ~rec.audioContextRef

C16_FailedStartLeavesNothing ==
    [][(/\ StartRecordingFails
        /\ acquiring = 1
        /\ rec.recorderRef = 0
        /\ LiveStreams = {}
        /\ RunningRecorders = {}
        /\ ~rec.isTransmittingRef) =>
           /\ \A s \in StreamIds : streams'[s] # "live"
           /\ rec'.streamRef = 0
           /\ \A r \in StreamIds : recorders'[r] # "recording"
           /\ ~rec'.isRecording
           /\ ~rec'.isTransmittingRef]_vars

\* C17: when the processing of a chunk fails, in the decode or in the send,
\* the failure is logged and nothing else changes: recorder, stream,
\* transmit flag, socket and the other chunks in progress are as before.
C17_ChunkFailureIsLocal ==
    [][\A c \in 1..(MaxChunks + 1), result \in {"ok", "failed"} :
          (DecodeSettles(c, result) /\ c \in probe'.failedChunks) =>
              /\ log' = {"Failed to process audio chunk"}
              /\ rec' = rec
              /\ recorders' = recorders
              /\ streams' = streams
              /\ stopCallbacks' = stopCallbacks
              /\ vs' = vs /\ ws' = ws /\ wire' = wire
              /\ decoding' = decoding \ {c}]_vars

\* Chunk 1 failed while the session was transmitting, and the chunk after it
\* went out on the wire.
C17_Witness ==
    /\ probe.failedChunks = {1}
    /\ \E s \in SockIds : wire = <<(<<s, 2>>)>>
    /\ rec.isTransmittingRef
    /\ rec.recorderRef # 0 /\ recorders[rec.recorderRef] = "recording"

\* C18: stopTransmission() clears the transmit flag and changes nothing
\* else: recorder, stream, audio context, socket and connection state are as
\* before.
C18_StopTransmissionFrame ==
    [][CallStopTransmission =>
          /\ ~rec'.isTransmittingRef
          /\ ~rec'.isTransmitting
          /\ rec' = [rec EXCEPT !.isTransmittingRef = FALSE, !.isTransmitting = FALSE]
          /\ recorders' = recorders
          /\ streams' = streams
          /\ stopCallbacks' = stopCallbacks
          /\ vs' = vs /\ ws' = ws /\ conn' = conn]_vars

\* The Stop button was used on a transmitting session: the flag is clear
\* (not yet rendered), the recorder still records and the socket is open.
C18_Witness ==
    /\ rec.rendered.isTransmitting
    /\ ~rec.isTransmittingRef
    /\ rec.isRecording
    /\ rec.recorderRef # 0 /\ recorders[rec.recorderRef] = "recording"
    /\ rec.streamRef # 0 /\ streams[rec.streamRef] = "live"
    /\ TransportConnected

\* C19 (as claimed): at most one socket that is not closed exists at a
\* time, and while the recorder holds an instance, an open, close or error
\* event of a socket of another instance leaves the recorder's connection,
\* transmission and recording state as it was.
UnclosedSockets ==
    {s \in SockIds : ws[s].readyState \in {"CONNECTING", "OPEN", "CLOSING"}}

IsStaleSocket(s) ==
    /\ rec.socketRef # 0
    /\ ws[s].owner # rec.socketRef

RecorderSessionState(r) ==
    <<r.connectedRef, r.isConnected, r.status, r.connectInFlightRef,
      r.isTransmittingRef, r.isTransmitting, r.isRecording>>

C19_SingleSession ==
    [][/\ Cardinality(UnclosedSockets') <= 1
       /\ \A s \in SockIds :
             (/\ IsStaleSocket(s)
              /\ \/ SocketOpens(s)
                 \/ \E code \in CloseCodes, e \in BOOLEAN : SocketCloses(s, code, e))
             => /\ RecorderSessionState(rec') = RecorderSessionState(rec)
                /\ conn' = conn]_vars


\* C20 (as claimed): at most one reconnect timer of the instance is
\* outstanding in every reachable state.
C20_OneTimerOutstanding == Len(vs[1].timers) <= 1


\* C21: the promise of a connectSocket call settles at most once; it becomes
\* resolved only in the open event of a socket of its VoiceSocket, before
\* any socket of that instance has closed; and a close event (with or
\* without a preceding error event) that finds it pending rejects it.
C21_ConnectOutcome ==
    [][\A v \in VSIds :
          /\ conn[v].outcome \in {"resolved", "rejected"} =>
                conn'[v].outcome = conn[v].outcome
          /\ (conn[v].outcome # "resolved" /\ conn'[v].outcome = "resolved") =>
                /\ conn[v].outcome = "pending"
                /\ \E s \in SockIds : SocketOpens(s) /\ ws[s].owner = v
                /\ vs[v].timers = <<>>
                /\ \A s \in SockIds : ws[s].owner = v => ws[s].readyState # "CLOSED"
          /\ \A s \in SockIds, code \in CloseCodes, e \in BOOLEAN :
                (SocketCloses(s, code, e) /\ ws[s].owner = v
                     /\ conn[v].outcome = "pending") =>
                    conn'[v].outcome = "rejected"]_vars

\* One call was resolved by its open event, another rejected by a close
\* before opening, and a reconnect of the rejected instance opened later.
C21_Witness ==
    \E v1, v2 \in VSIds :
        /\ conn[v1].outcome = "resolved"
        /\ conn[v2].outcome = "rejected"
        /\ SocketIsOpen(Cur, v2)

\* C22: decoding the payload that encodePCMToBase64 produced for an
\* Int16Array gives as many samples as the array has, the i-th being the
\* i-th int16 value over 32768, so the int16 values are recovered exactly.
C22_RoundTrip ==
    dsp.stage = "decoded" =>
        /\ Len(dsp.float32) = Len(dsp.pcmData)
        /\ \A i \in 1..Len(dsp.pcmData) :
               dsp.float32[i] = [num |-> dsp.pcmData[i], den |-> PcmScale]

\* The extreme negative sample and a sample whose two bytes differ went
\* through the codec (4 bytes: one full base64 group and a padded one).
C22_Witness ==
    /\ dsp.stage = "decoded"
    /\ dsp.pcmData = <<-32768, 255>>
    /\ Len(dsp.data) = 8
    /\ dsp.data[8] = Base64Pad

\* C23: every quantized sample lies in [-32768, 32767]; a smoothed, gated
\* value of 1 or more is stored as 32767 and one below -1 as -32768.
C23_QuantizeSaturates ==
    dsp.stage = "quantized" =>
        \A i \in 1..Len(dsp.pcmData) :
            /\ dsp.pcmData[i] \in -32768..32767
            /\ dsp.denoised[i] >= Unit => dsp.pcmData[i] = 32767
            /\ dsp.denoised[i] < -Unit => dsp.pcmData[i] = -32768

\* The chunk <<10, -10>> was quantized: its first smoothed value, 1.2, is
\* stored as 32767 and its second, -0.144, as -4718.
C23_Witness ==
    /\ dsp.stage = "quantized"
    /\ dsp.channelData = <<10 * Unit, -10 * Unit>>
    /\ dsp.denoised[1] > Unit
    /\ dsp.pcmData = <<32767, -4718>>

\* C24: a chunk all of whose raw samples are below 0.015 in magnitude leaves
\* the conditioner as zeros, as many as the chunk has samples, and is
\* quantized to as many zeros.
C24_QuietChunkIsSilence ==
    (/\ dsp.stage \in {"denoised", "quantized"}
     /\ \A i \in 1..Len(dsp.channelData) :
            Abs(dsp.channelData[i]) < Times(noiseGateThreshold, Unit)) =>
        /\ dsp.denoised = [i \in 1..Len(dsp.channelData) |-> 0]
        /\ dsp.stage = "quantized" =>
               dsp.pcmData = [i \in 1..Len(dsp.channelData) |-> 0]

\* A chunk of two non-zero samples of magnitude 0.01 was conditioned and
\* quantized.
C24_Witness ==
    /\ dsp.stage = "quantized"
    /\ dsp.channelData = <<2 * (Unit \div 200), -2 * (Unit \div 200)>>
    /\ dsp.pcmData = <<0, 0>>

\* round(x): the nearest integer, halves upward (Math.round).
Round(x) == IF 2 * x.frac >= Unit \div 8 THEN x.whole + 1 ELSE x.whole

\* C28 (as claimed): every transmitted int16 value is the scaled sample
\* rounded to the nearest integer and clamped to [-32768, 32767].
C28_QuantizeRounds ==
    dsp.stage = "quantized" =>
        \A i \in 1..Len(dsp.pcmData) :
            LET r == Round(Scaled(dsp.denoised[i]))
            IN  dsp.pcmData[i] =
                    (IF r > 32767 THEN 32767 ELSE IF r < -32768 THEN -32768 ELSE r)

\* C25: a close event with a code other than 1000 that finds no explicit
\* close in progress and fewer than 5 attempts used schedules a reconnect
\* timer, and whenever a reconnect timer is outstanding a new socket is
\* eventually constructed, with no call from the owner needed (the sockets of
\* one behaviour are capped at MaxFairSock).
C25_ReconnectEventually ==
    /\ [][\A s \in SockIds, code \in CloseCodes, e \in BOOLEAN :
             (/\ SocketCloses(s, code, e)
              /\ code # NormalClosure
              /\ ~vs[1].isClosing
              /\ vs[1].reconnectAttempts < 5) =>
                 Len(vs'[1].timers) = Len(vs[1].timers) + 1]_vars
    /\ \A n \in 1..MaxFairSock :
           (vs[1].timers # <<>> /\ nextSock = n) ~> (nextSock > n)

\* After one init() the socket closed with 1006 five times and the timer of
\* the fifth close has made the fifth reconnect.
C25_Witness ==
    /\ inits = 1
    /\ ~closedByCaller
    /\ closeRun = 5
    /\ attemptsRun = 5
    /\ nextSock = 7
    /\ ws[6].readyState = "CONNECTING"

\* C26 (as claimed): while the instance holds a playback context on which no
\* teardown has been started, no step lowers the playback clock; and only a
\* step that creates a context moves the clock to the device's current time.
C26_ClockNeverRewound ==
    [][LET c == vs[1].playbackContext
           d == vs'[1].playbackContext
       IN  /\ (c # 0 /\ pctx[c].state = "running" /\ pctx'[c].state = "running") =>
                  vs'[1].playbackClock >= vs[1].playbackClock
           /\ (/\ d # 0
               /\ vs'[1].playbackClock # vs[1].playbackClock
               /\ vs'[1].playbackClock = pctx'[d].currentTime) =>
                  nextCtx' = nextCtx + 1]_vars

\* C27 (as claimed): the frames handed to the transport are in the order in
\* which the recorder delivered their chunks (chunk ids grow with delivery):
\* on the wire and in every outbound queue a frame precedes the frames of
\* all later chunks.
C27_WireOrderIsCaptureOrder ==
    /\ StrictlyIncreasing([i \in 1..Len(wire) |-> wire[i][2]])
    /\ \A v \in VSIds : StrictlyIncreasing(vs[v].messageQueue)

\* C29 (as claimed): when the awaited close() of context c settles and the
\* teardown that started it completes, the instance's context and clock are
\* touched only if the context it holds is c: a context created since is
\* neither dropped nor has its clock reset, and no context that was never
\* closed is left without an owner.
OrphanedContexts ==
    {c \in CtxIds : pctx[c].state = "running" /\ vs[1].playbackContext # c}

C29_TeardownDropsOnlyItsContext ==
    /\ [][\A c \in CtxIds :
             (TeardownResumes(1, c) /\ vs[1].playbackContext # c) =>
                 /\ vs'[1].playbackContext = vs[1].playbackContext
                 /\ vs'[1].playbackClock = vs[1].playbackClock]_vars
    /\ [](OrphanedContexts = {})

\* C30 (as claimed): when stopRecording() ran (from the socket's close
\* handler, disconnectSocket() or the unmount cleanup) while the only
\* startRecording() in progress was awaiting getUserMedia, then once
\* getUserMedia has resolved with the transport disconnected, the acquired
\* stream is not live and no recorder records it.
C30_StopDuringAcquisition ==
    [][\A ok \in BOOLEAN :
          (/\ GetUserMediaResolves(ok)
           /\ acquiring = 1
           /\ probe.stoppedWhileAcquiring
           /\ ~TransportConnected) =>
              /\ streams'[nextStream] # "live"
              /\ recorders'[nextStream] # "recording"
              /\ ~rec'.isRecording]_vars

\* C31 (as claimed): whenever the transmit flag is set, the recorder the
\* component holds is recording: startRecording() succeeded and
\* stopRecording() has not been called on it since.
C31_TransmitImpliesRecording ==
    rec.isTransmittingRef =>
        /\ rec.recorderRef # 0
        /\ recorders[rec.recorderRef] = "recording"

====
